---- MODULE Spec2Model ----
(***************************************************************************)
(* Kilimo Smart advisory gateway (src/main.py): the USSD menu handler, the *)
(* SMS dialogue handler, the two in-memory session maps and the lookups    *)
(* they call.                                                              *)
(*                                                                         *)
(* Strings that the code converts (strip, split, lower, replace,           *)
(* capitalize) are sequences of tokens: a token is a run of characters     *)
(* that holds neither the separator "*" nor white space, or it is the      *)
(* separator "*" or the blank " " itself.                                  *)
(***************************************************************************)
EXTENDS Integers, Sequences, FiniteSets, TLC

\* ------------------------------------------------------------------ bounds
\* Segments joined by "*" in one accumulated USSD text.
MaxSegs == 3

\* ------------------------------------------------------- request alphabets
SessionIds == {"s1", "s2"}
Phones == {"0711", "+255712"}

\* The segments a USSD user enters: menu digits, the back code, free text,
\* a blank, nothing, and the word the handler uses as its own placeholder.
Segments ==
  { <<>>, <<"1">>, <<"2">>, <<"3">>, <<"4">>, <<"5">>, <<"99">>,
    <<"q">>, <<" ">>, <<"default">> }

\* ----------------------------------------------------------- string helpers
RECURSIVE Join(_)
\* The transport's running concatenation: segments joined by "*".
Join(segs) ==
  IF Len(segs) = 0 THEN <<>>
  ELSE IF Len(segs) = 1 THEN segs[1]
  ELSE segs[1] \o <<"*">> \o Join(Tail(segs))

RECURSIVE SegSeqs(_)
SegSeqs(n) ==
  IF n = 0 THEN {<<>>}
  ELSE LET shorter == SegSeqs(n - 1)
       IN  shorter \cup { Append(s, g) : s \in { x \in shorter : Len(x) = n - 1 }, g \in Segments }

\* Every accumulated text of one to MaxSegs segments.
Texts == { Join(segs) : segs \in SegSeqs(MaxSegs) \ {<<>>} }

RECURSIVE LStrip(_)
LStrip(t) == IF t # <<>> /\ Head(t) = " " THEN LStrip(Tail(t)) ELSE t

RECURSIVE RStrip(_)
RStrip(t) ==
  IF t # <<>> /\ t[Len(t)] = " " THEN RStrip(SubSeq(t, 1, Len(t) - 1)) ELSE t

\* str.strip()
Strip(t) == RStrip(LStrip(t))

\* Index of the first "*" of t, 0 when there is none.
RECURSIVE FirstStar(_, _)
FirstStar(t, i) ==
  IF i > Len(t) THEN 0
  ELSE IF t[i] = "*" THEN i
  ELSE FirstStar(t, i + 1)

\* str.split('*'): always at least one part, empty parts kept.
RECURSIVE Split(_)
Split(t) ==
  LET k == FirstStar(t, 1)
  IN  IF k = 0 THEN <<t>>
      ELSE <<SubSeq(t, 1, k - 1)>> \o Split(SubSeq(t, k + 1, Len(t)))

\* str.split('*', 1)[1]: everything after the first "*".
AfterFirstStar(t) == SubSeq(t, FirstStar(t, 1) + 1, Len(t))

Last(parts) == parts[Len(parts)]

\* One character per element, for the names the price tables normalise.
Uppers == <<"A", "B", "C", "E", "H", "I", "M", "N", "O", "R", "S", "T", "X", "Z">>
Lowers == <<"a", "b", "c", "e", "h", "i", "m", "n", "o", "r", "s", "t", "x", "z">>

RECURSIVE IndexIn(_, _, _)
IndexIn(c, letters, i) ==
  IF i > Len(letters) THEN 0
  ELSE IF letters[i] = c THEN i
  ELSE IndexIn(c, letters, i + 1)

LowerChar(c) == LET i == IndexIn(c, Uppers, 1) IN IF i = 0 THEN c ELSE Lowers[i]
UpperChar(c) == LET i == IndexIn(c, Lowers, 1) IN IF i = 0 THEN c ELSE Uppers[i]

\* str.lower()
Lower(w) == [i \in 1..Len(w) |-> LowerChar(w[i])]

\* str.replace(" ", "")
RECURSIVE RemoveSpaces(_)
RemoveSpaces(w) ==
  IF w = <<>> THEN <<>>
  ELSE IF Head(w) = " " THEN RemoveSpaces(Tail(w))
  ELSE <<Head(w)>> \o RemoveSpaces(Tail(w))

\* str.capitalize(): first character upper case, the rest lower case.
Capitalize(w) ==
  [i \in 1..Len(w) |-> IF i = 1 THEN UpperChar(w[i]) ELSE LowerChar(w[i])]

\* ------------------------------------------------- advisory content lookups
Maize == <<"M", "a", "i", "z", "e">>
Beans == <<"B", "e", "a", "n", "s">>
Rice == <<"R", "i", "c", "e">>
Tomato == <<"T", "o", "m", "a", "t", "o">>

DefaultRegion == "Dar es Salaam"

crop_prices ==
  (Lower(Maize) :> ("Dar es Salaam" :> "780 TZS/kg" @@ "Iringa" :> "720 TZS/kg"
                     @@ "Mbeya" :> "750 TZS/kg"))
  @@ (Lower(Beans) :> ("Dar es Salaam" :> "1950 TZS/kg" @@ "Morogoro" :> "1800 TZS/kg"))
  @@ (Lower(Rice) :> ("Dar es Salaam" :> "1300 TZS/kg" @@ "Mwanza" :> "1200 TZS/kg"))
  @@ (Lower(Tomato) :> ("Dar es Salaam" :> "1650 TZS/kg" @@ "Arusha" :> "1450 TZS/kg"))

\* The lookup with the crop name lower-cased only, its spaces kept.
get_crop_prices_keeps_spaces(crop_name, region) ==
  LET normalized_crop == Lower(crop_name)
  IN  IF normalized_crop \in DOMAIN crop_prices
         /\ region \in DOMAIN crop_prices[normalized_crop]
      THEN [kind |-> "price", crop |-> Capitalize(crop_name), region |-> region,
            price |-> crop_prices[normalized_crop][region]]
      ELSE [kind |-> "price_unavailable", crop |-> Capitalize(crop_name),
            region |-> region, price |-> "none"]

\* "Bei ya sasa ya <Crop> <region>: <price>." or "Bei ya <Crop> <region>
\* haipatikani kwa sasa. ..."
get_crop_prices(crop_name, region) ==
  LET normalized_crop == RemoveSpaces(Lower(crop_name))
  IN  IF normalized_crop \in DOMAIN crop_prices
         /\ region \in DOMAIN crop_prices[normalized_crop]
      THEN [kind |-> "price", crop |-> Capitalize(crop_name), region |-> region,
            price |-> crop_prices[normalized_crop][region]]
      ELSE [kind |-> "price_unavailable", crop |-> Capitalize(crop_name),
            region |-> region, price |-> "none"]

forecasts ==
  (Lower(Maize) :> "Ongezeko kidogo la 3-5%")
  @@ (Lower(Beans) :> "Bei zinatarajiwa kuwa tulivu")
  @@ (Lower(Rice) :> "Kupungua kwa asilimia 2-4%")
  @@ (Lower(Tomato) :> "Bei zinaweza kubadilika sana")

get_crop_price_forecast(crop_name) ==
  LET normalized_crop == RemoveSpaces(Lower(crop_name))
  IN  IF normalized_crop \in DOMAIN forecasts
      THEN [kind |-> "forecast", crop |-> Capitalize(crop_name),
            text |-> forecasts[normalized_crop]]
      ELSE [kind |-> "forecast_unavailable", crop |-> Capitalize(crop_name),
            text |-> "none"]

\* item_type.lower() is compared with two fixed categories.
get_logistics_info(item_type) ==
  IF item_type = "grain storage" THEN "Vituo vikuu vya kuhifadhia nafaka"
  ELSE IF item_type = "transport" THEN "Kwa usafirishaji, fikiria vyama vya malori"
  ELSE "Ushauri wa jumla wa usafirishaji"

\* Crop names as a caller may spell them, one character per element, and
\* regions.
CropNames ==
  { Maize, Lower(Maize), <<"M", "A", "I", "Z", "E">>, <<"m", "a", "i", " ", "z", "e">>,
    <<" ", "M", "a", "i", "z", "e">>, Beans, <<"b", "E", "a", "n", "s", " ">>,
    <<"R", "I", "C", "E">>, Lower(Tomato), <<"t", "o", "m", "a", "t", "o", "e", "s">>,
    <<"c", "a", "s", "s", "a", "v", "a">>, <<>> }

Regions ==
  { "Dar es Salaam", "Iringa", "Mbeya", "Morogoro", "Mwanza", "Arusha", "Dodoma",
    "dar es salaam", "" }

NoPriceOut == [crop_name |-> <<>>, region |-> "none", result |-> [kind |-> "none"]]

\* ---------------------------------------------------------------- state
VARIABLES
  ussd_sessions,      \* session id -> record, the USSD session map
  sms_conversations,  \* sender -> list of turns, the SMS history map
  gemini_model,       \* TRUE when the advisor was configured at start-up
  openweather_key,    \* TRUE when OPENWEATHER_API_KEY is set
  now,                \* datetime.now(), in units of SESSION_TIMEOUT (ten minutes)
  ussd_out,           \* what the last USSD request saw and answered
  sms_out,            \* what the last SMS request saw, sent and answered
  leftWelcome,        \* session ids one of whose records has left step welcome
  ussd_refs,          \* interleaved handlers: session id -> the dict object stored
  heap,               \* interleaved handlers: dict object -> its fields
  workers,            \* interleaved handlers: each request thread's locals
  sms_refs,           \* interleaved handlers: sender -> the list object stored
  sms_heap,           \* interleaved handlers: list object -> its turns
  sms_workers,        \* interleaved handlers: each SMS request thread's locals
  sweeper,            \* interleaved handlers: the locals of cleanup_old_sessions
  op,                 \* the operation that ran last, its key and what it removed
  price_out           \* the last price lookup: its arguments and its result

vars ==
  <<ussd_sessions, sms_conversations, gemini_model, openweather_key, now,
    ussd_out, sms_out, leftWelcome, ussd_refs, heap, workers,
    sms_refs, sms_heap, sms_workers, sweeper, op, price_out>>

smsThreadVars == <<sms_refs, sms_heap, sms_workers>>

threadVars ==
  <<ussd_refs, heap, workers, sms_refs, sms_heap, sms_workers, sweeper, price_out>>

None == [kind |-> "none"]

NoOp == [name |-> "none", key |-> "none", removed |-> {}]

\* ------------------------------------------------------------ weather client
WeatherOutcomes ==
  {"ok", "transport_error", "http_error", "bad_json", "missing_field",
   "empty_weather_list"}

SimulatedWeather == [kind |-> "snapshot", city |-> DefaultRegion, source |-> "simulated"]
LiveWeather == [kind |-> "snapshot", city |-> DefaultRegion, source |-> "openweathermap"]

\* The results get_current_weather can hand to its caller for one outcome of
\* the HTTP call: a snapshot, None, or an exception that leaves the function.
\* RequestException and KeyError are caught; the IndexError of
\* data['weather'][0] on an empty list is not.  response.json() on an
\* unparsable body raises a RequestException in recent requests releases and
\* a plain ValueError in older ones.
get_current_weather(outcome) ==
  IF ~openweather_key
  THEN {[raised |-> FALSE, value |-> SimulatedWeather, calls |-> 0]}
  ELSE CASE outcome = "ok" -> {[raised |-> FALSE, value |-> LiveWeather, calls |-> 1]}
         [] outcome \in {"transport_error", "http_error", "missing_field"} ->
              {[raised |-> FALSE, value |-> None, calls |-> 1]}
         [] outcome = "bad_json" ->
              {[raised |-> FALSE, value |-> None, calls |-> 1],
               [raised |-> TRUE, value |-> None, calls |-> 1]}
         [] outcome = "empty_weather_list" ->
              {[raised |-> TRUE, value |-> None, calls |-> 1]}

WeatherResults == UNION { get_current_weather(o) : o \in WeatherOutcomes }

\* ------------------------------------------------------------ advisor client
GeminiOutcomes == {"text", "empty", "error"}

\* get_gemini_advice(user_prompt, lang="sw"): the reply text and the number
\* of calls made to the model.
get_gemini_advice(user_prompt, outcome) ==
  IF ~gemini_model THEN [text |-> "huduma ya ushauri wa AI haipatikani", calls |-> 0]
  ELSE CASE outcome = "text" -> [text |-> "ushauri", calls |-> 1]
         [] outcome = "empty" -> [text |-> "Jibu la AI lilikuwa tupu", calls |-> 1]
         [] outcome = "error" -> [text |-> "tatizo la kiufundi", calls |-> 1]

AdviceResults(user_prompt) == { get_gemini_advice(user_prompt, o) : o \in GeminiOutcomes }

\* ------------------------------------------------------- USSD menu handler
\* What one branch of the handler does: the response text (marker, which
\* message, what it carries), the step it leaves in the record, whether it
\* deletes the record, whether an exception left the handler instead, and
\* the external calls it made.  sets_step tells a branch that assigns
\* session_data["current_step"] from one that leaves the record alone.
Cont(body, step) ==
  [marker |-> "CON", body |-> body, detail |-> None, current_step |-> step,
   sets_step |-> TRUE, ended |-> FALSE, fault |-> FALSE, weather_calls |-> 0,
   advisor_calls |-> 0]

Stay(body, step) ==
  [marker |-> "CON", body |-> body, detail |-> None, current_step |-> step,
   sets_step |-> FALSE, ended |-> FALSE, fault |-> FALSE, weather_calls |-> 0,
   advisor_calls |-> 0]

End(body, detail, wc, ac) ==
  [marker |-> "END", body |-> body, detail |-> detail, current_step |-> "deleted",
   sets_step |-> FALSE, ended |-> TRUE, fault |-> FALSE, weather_calls |-> wc, advisor_calls |-> ac]

Fault(step, wc) ==
  [marker |-> "500", body |-> "unhandled_exception", detail |-> None,
   current_step |-> step, sets_step |-> FALSE, ended |-> FALSE, fault |-> TRUE,
   weather_calls |-> wc, advisor_calls |-> 0]

\* "Karibu Kilimo Smart! Chagua Huduma: ..." and step main_menu_choice.
ShowMainMenu == Cont("main_menu", "main_menu_choice")

\* Lines 365-409.
main_menu_choice(current_input) ==
  CASE current_input = <<"1">> -> {Cont("crop_list", "crop_price_choice")}
    [] current_input = <<"2">> -> {Cont("query_prompt", "ai_advice_query")}
    [] current_input = <<"3">> ->
         { IF w.raised THEN Fault("main_menu_choice", w.calls)
           ELSE IF w.value # None THEN End("weather", w.value, w.calls, 0)
           ELSE End("weather_apology", None, w.calls, 0) : w \in WeatherResults }
    [] current_input = <<"4">> -> {Cont("logistics_list", "logistics_info_choice")}
    [] current_input = <<"5">> -> {End("farewell", None, 0, 0)}
    [] OTHER -> {Stay("invalid_main_menu", "main_menu_choice")}

\* The crop table with its entries moved down by one.
crop_map_shifted ==
  (<<"1">> :> Beans) @@ (<<"2">> :> Rice) @@ (<<"3">> :> Tomato) @@ (<<"4">> :> Maize)

crop_map == (<<"1">> :> Maize) @@ (<<"2">> :> Beans) @@ (<<"3">> :> Rice) @@ (<<"4">> :> Tomato)

\* The crop step with a back code that restarts the session at welcome.
crop_price_choice_back_to_welcome(current_input) ==
  IF current_input = <<"99">> THEN {Cont("main_menu", "welcome")}
  ELSE IF current_input \in DOMAIN crop_map
  THEN {End("price",
            [kind |-> "price_and_forecast",
             price_info |-> get_crop_prices(crop_map[current_input], DefaultRegion),
             forecast_info |-> get_crop_price_forecast(crop_map[current_input])], 0, 0)}
  ELSE {Stay("invalid_crop_list", "crop_price_choice")}

\* Lines 411-436.
crop_price_choice(current_input) ==
  IF current_input = <<"99">> THEN {ShowMainMenu}
  ELSE IF current_input \in DOMAIN crop_map
  THEN LET selected_crop == crop_map[current_input]
           price_info == get_crop_prices(selected_crop, DefaultRegion)
           forecast_info == get_crop_price_forecast(selected_crop)
       IN  {End("price",
                [kind |-> "price_and_forecast", price_info |-> price_info,
                 forecast_info |-> forecast_info], 0, 0)}
  ELSE {Stay("invalid_crop_list", "crop_price_choice")}

\* Line 448: the text after the first "*", or the whole text without one.
user_query_of(text) == IF FirstStar(text, 1) # 0 THEN AfterFirstStar(text) ELSE text

\* Lines 438-458.
ai_advice_query(current_input, text) ==
  IF current_input = <<"99">> THEN {ShowMainMenu}
  ELSE LET user_query == user_query_of(text)
       IN  IF Strip(user_query) # <<>>
           THEN { End("advice", [kind |-> "advice", text |-> a.text], 0, a.calls) :
                  a \in AdviceResults(user_query) }
           ELSE {Stay("query_reprompt", "ai_advice_query")}

\* The logistics step answering an unknown choice with the general advice.
logistics_info_choice_general(current_input) ==
  IF current_input = <<"99">> THEN {ShowMainMenu}
  ELSE IF current_input = <<"1">>
  THEN {End("logistics", [kind |-> "logistics", text |-> get_logistics_info("grain storage")], 0, 0)}
  ELSE IF current_input = <<"2">>
  THEN {End("logistics", [kind |-> "logistics", text |-> get_logistics_info("transport")], 0, 0)}
  ELSE {End("logistics", [kind |-> "logistics", text |-> get_logistics_info("general")], 0, 0)}

\* Lines 460-485.
logistics_info_choice(current_input) ==
  IF current_input = <<"99">> THEN {ShowMainMenu}
  ELSE IF current_input = <<"1">>
  THEN {End("logistics", [kind |-> "logistics", text |-> get_logistics_info("grain storage")], 0, 0)}
  ELSE IF current_input = <<"2">>
  THEN {End("logistics", [kind |-> "logistics", text |-> get_logistics_info("transport")], 0, 0)}
  ELSE {Stay("invalid_logistics_list", "logistics_info_choice")}

\* The dispatch showing the main menu at welcome whatever the input.
menu_flow_welcome_any_input(current_step, current_input, text) ==
  IF current_step = "welcome" THEN {ShowMainMenu}
  ELSE IF current_step = "main_menu_choice" THEN main_menu_choice(current_input)
  ELSE IF current_step = "crop_price_choice" THEN crop_price_choice(current_input)
  ELSE IF current_step = "ai_advice_query" THEN ai_advice_query(current_input, text)
  ELSE IF current_step = "logistics_info_choice" THEN logistics_info_choice(current_input)
  ELSE {End("generic_error", None, 0, 0)}

\* Lines 356-491: the step dispatch.
menu_flow(current_step, current_input, text) ==
  IF current_step = "welcome" /\ current_input = <<"default">> THEN {ShowMainMenu}
  ELSE IF current_step = "main_menu_choice" THEN main_menu_choice(current_input)
  ELSE IF current_step = "crop_price_choice" THEN crop_price_choice(current_input)
  ELSE IF current_step = "ai_advice_query" THEN ai_advice_query(current_input, text)
  ELSE IF current_step = "logistics_info_choice" THEN logistics_info_choice(current_input)
  ELSE {End("generic_error", None, 0, 0)}

\* Line 352.
current_input_of(text) == IF text # <<>> THEN Last(Split(text)) ELSE <<"default">>

\* Deletion that empties the whole store.
Without_clear(store, key) == <<>>

\* "del store[key]".
Without(store, key) == [k \in (DOMAIN store) \ {key} |-> store[k]]

NoUssdOut ==
  [session_id |-> "none", marker |-> "none", body |-> "none", detail |-> None,
   before |-> None, current_step |-> "none", current_input |-> <<>>,
   text_empty |-> TRUE, query_blank |-> TRUE, fault |-> FALSE,
   weather_calls |-> 0, advisor_calls |-> 0, sms_calls |-> 0]

\* agricultural_ussd(), one request handled from start to end.
agricultural_ussd(session_id, phone_number, raw_text) ==
  LET text == Strip(raw_text)
      before == IF session_id \in DOMAIN ussd_sessions THEN ussd_sessions[session_id] ELSE None
      created == [phone_number |-> phone_number, current_step |-> "welcome",
                  data |-> <<>>, last_active |-> now]
      session_data ==
        [(IF before = None THEN created ELSE before) EXCEPT !.last_active = now]
      current_input == current_input_of(text)
      current_step == session_data.current_step
  IN  \E r \in menu_flow(current_step, current_input, text) :
        /\ ussd_sessions' =
             IF r.ended THEN Without(ussd_sessions, session_id)
             ELSE (session_id :> [session_data EXCEPT !.current_step = r.current_step])
                  @@ ussd_sessions
        /\ ussd_out' =
             [session_id |-> session_id, marker |-> r.marker, body |-> r.body,
              detail |-> r.detail, before |-> before, current_step |-> current_step,
              current_input |-> current_input, text_empty |-> (text = <<>>),
              query_blank |-> (Strip(user_query_of(text)) = <<>>), fault |-> r.fault,
              weather_calls |-> r.weather_calls, advisor_calls |-> r.advisor_calls,
              sms_calls |-> 0]
        /\ leftWelcome' =
             IF current_step = "welcome" /\ ~r.ended /\ r.current_step # "welcome"
             THEN leftWelcome \cup {session_id}
             ELSE leftWelcome
        /\ op' = [name |-> "ussd", key |-> session_id, removed |-> {}]
        /\ UNCHANGED <<sms_conversations, gemini_model, openweather_key, now, sms_out>>
        /\ UNCHANGED threadVars

\* All the handler reads of the text: its last segment (line 352), whether it
\* is empty (line 352) and whether the query taken from it is blank (line 449).
ParseText(raw_text) ==
  LET text == Strip(raw_text)
  IN  [current_input |-> current_input_of(text), text_empty |-> (text = <<>>),
       query_blank |-> (Strip(user_query_of(text)) = <<>>)]

\* One text of Texts for each way the handler can read a text.
UssdTexts == { CHOOSE t \in Texts : ParseText(t) = c : c \in { ParseText(t) : t \in Texts } }

UssdRequest == \E s \in SessionIds, p \in Phones, t \in UssdTexts : agricultural_ussd(s, p, t)

\* ------------------------------------------------------ SMS dialogue handler
\* Turns one sender's history may hold in the model.
MaxTurns == 4

\* Sender identities, one character per element: an international number and
\* a local one with leading zeros.
Senders == { <<"+", "2", "5", "5", "7">>, <<"0", "0", "7">> }
NoSender == <<>>

\* Message texts as received, one character per element; the empty text is
\* what a request without a text carries.
RawMessages ==
  { <<>>,
    <<"H", "i">>, <<" ", "h", "i", " ">>, <<"h", "a", "b", "a", "r", "i">>,
    <<"M", "A", "M", "B", "O">>,
    <<"E", "x", "i", "t">>, <<"e", "x", "i", "t", " ">>,
    <<"q">>, <<"h", "i", " ", "q">> }

\* The greeting list with its last entry lost.
GreetingKeywords_without_mambo == { <<"h", "i">>, <<"h", "a", "b", "a", "r", "i">> }

\* Line 254.
GreetingKeywords ==
  { <<"h", "i">>, <<"h", "a", "b", "a", "r", "i">>, <<"m", "a", "m", "b", "o">> }
\* The exit keyword written with a capital, which no lower-cased text equals.
ExitKeyword_capitalised == <<"E", "x", "i", "t">>

\* Line 269.
ExitKeyword == <<"e", "x", "i", "t">>

\* Line 254, second operand: the normalized text is one of the greetings.
is_greeting(user_message_normalized) == user_message_normalized \in GreetingKeywords

\* Line 269.
is_exit(user_message_normalized) == user_message_normalized = ExitKeyword

WelcomeMessage == "Karibu Kilimo Smart!"
FarewellMessage == "Asante kwa kutumia huduma ya Kilimo Smart. Kwaheri!"
TechnicalMessage == "Samahani, kumetokea hitilafu wakati wa kutafuta taarifa."
UnavailableMessage == "Samahani, huduma ya maelezo ya kilimo haipatikani kwa sasa."
AdvisorReply == "ushauri wa Gemini"

\* str.lstrip('0')
RECURSIVE LStripZeros(_)
LStripZeros(phone) ==
  IF phone # <<>> /\ Head(phone) = "0" THEN LStripZeros(Tail(phone)) ELSE phone

\* send_sms(): the one message handed to sms.send, with the recipient put in
\* international form; a failure of sms.send is caught and only logged.
send_sms(phone, message) ==
  [phone |-> phone,
   to |-> IF phone # <<>> /\ Head(phone) = "+" THEN phone
          ELSE <<"+", "2", "5", "5">> \o LStripZeros(phone),
   message |-> message]

\* The user turn stored under the role of the model.
UserTurn_as_model(text) == [role |-> "model", parts |-> text]

\* Line 279.
UserTurn(text) == [role |-> "user", parts |-> text]
ModelTurn(text) == [role |-> "model", parts |-> text]

\* The history handed to start_chat with the current user turn left in.
gemini_formatted_history_with_current(history) ==
  SelectSeq(history, LAMBDA msg : msg.role \in {"user", "model"})

\* Lines 286-298: the history handed to start_chat, the stored turns with
\* role user or model in their order, without the last one.
gemini_formatted_history(history) ==
  LET formatted == SelectSeq(history, LAMBDA msg : msg.role \in {"user", "model"})
  IN  SubSeq(formatted, 1, Len(formatted) - 1)

\* The advisor taken as configured whatever start-up found.
advisor_available_always == TRUE

\* Line 282: "if gemini_model:".
advisor_available == gemini_model

\* The advisor branch storing the unavailable-service text when the call
\* fails.
advisor_reply_error_as_unavailable(history, user_message_normalized) ==
  IF advisor_available
  THEN { [reply |-> AdvisorReply, outcome |-> "text", calls |-> 1,
          chat_history |-> gemini_formatted_history(history),
          prompt |-> user_message_normalized],
         [reply |-> UnavailableMessage, outcome |-> "error", calls |-> 1,
          chat_history |-> gemini_formatted_history(history),
          prompt |-> user_message_normalized] }
  ELSE { [reply |-> UnavailableMessage, outcome |-> "unavailable", calls |-> 0,
          chat_history |-> <<>>, prompt |-> <<>>] }

\* Lines 282-317: the replies the advisor branch can produce for a history
\* that already ends with the new user turn.
advisor_reply(history, user_message_normalized) ==
  IF advisor_available
  THEN { [reply |-> AdvisorReply, outcome |-> "text", calls |-> 1,
          chat_history |-> gemini_formatted_history(history),
          prompt |-> user_message_normalized],
         [reply |-> TechnicalMessage, outcome |-> "error", calls |-> 1,
          chat_history |-> gemini_formatted_history(history),
          prompt |-> user_message_normalized] }
  ELSE { [reply |-> UnavailableMessage, outcome |-> "unavailable", calls |-> 0,
          chat_history |-> <<>>, prompt |-> <<>>] }

NoSmsOut ==
  [sender |-> <<"none">>, status |-> 0, text_present |-> FALSE, normalized |-> <<>>,
   had_session |-> FALSE,
   before |-> <<>>, sent |-> <<>>, advisor_calls |-> 0, outcome |-> "none",
   chat_history |-> <<>>, prompt |-> <<>>]

SmsOut(sender, status, text_present, normalized, sent, a) ==
  [sender |-> sender, status |-> status, text_present |-> text_present,
   normalized |-> normalized,
   had_session |-> (sender \in DOMAIN sms_conversations),
   before |-> IF sender \in DOMAIN sms_conversations THEN sms_conversations[sender] ELSE <<>>,
   sent |-> sent, advisor_calls |-> a.calls, outcome |-> a.outcome,
   chat_history |-> a.chat_history, prompt |-> a.prompt]

NoAdvisor ==
  [reply |-> "none", outcome |-> "none", calls |-> 0, chat_history |-> <<>>,
   prompt |-> <<>>]

\* The parameter test that looks at the sender only.
missing_parameters_sender_only(sender, message_text) == sender = NoSender

\* Line 245: "if not sender or not message_text:".
missing_parameters(sender, message_text) == sender = NoSender \/ message_text = <<>>

\* sms_chatbot(), one inbound message handled from start to end.
sms_chatbot(sender, message_text) ==
  LET session_id == sender
      user_message_normalized == Strip(Lower(message_text))
      history == IF session_id \in DOMAIN sms_conversations
                 THEN sms_conversations[session_id] ELSE <<>>
  IN  /\ UNCHANGED <<ussd_sessions, gemini_model, openweather_key, now, ussd_out,
                     leftWelcome>>
      /\ UNCHANGED threadVars
      /\ op' = [name |-> "sms", key |-> sender, removed |-> {}]
      /\ IF missing_parameters(sender, message_text)
         THEN \* lines 245-247
              /\ sms_conversations' = sms_conversations
              /\ sms_out' = SmsOut(sender, 400, message_text # <<>>, <<>>, <<>>, NoAdvisor)
         ELSE IF session_id \notin DOMAIN sms_conversations
                 \/ is_greeting(user_message_normalized)
         THEN \* lines 254-262
              /\ sms_conversations' = (session_id :> <<>>) @@ sms_conversations
              /\ sms_out' = SmsOut(sender, 200, message_text # <<>>, user_message_normalized,
                                   <<send_sms(sender, WelcomeMessage)>>, NoAdvisor)
         ELSE IF is_exit(user_message_normalized)
         THEN \* lines 269-275
              /\ sms_conversations' = Without(sms_conversations, session_id)
              /\ sms_out' = SmsOut(sender, 200, message_text # <<>>, user_message_normalized,
                                   <<send_sms(sender, FarewellMessage)>>, NoAdvisor)
         ELSE \* lines 279-322
              /\ Len(history) + 2 <= MaxTurns
              /\ \E a \in advisor_reply(Append(history, UserTurn(user_message_normalized)),
                                        user_message_normalized) :
                   /\ sms_conversations' =
                        (session_id :>
                           Append(Append(history, UserTurn(user_message_normalized)),
                                  ModelTurn(a.reply)))
                        @@ sms_conversations
                   /\ sms_out' = SmsOut(sender, 200, message_text # <<>>, user_message_normalized,
                                        <<send_sms(sender, a.reply)>>, a)

SmsRequest ==
  \E sender \in Senders \cup {NoSender}, message_text \in RawMessages :
    sms_chatbot(sender, message_text)

\* ------------------------------------------- USSD handlers, interleaved
\* The server answers each request in a thread of its own and the handler
\* takes no lock, so the statements of two handlers interleave.  Here the
\* session map holds references to dict objects, as in the code:
\* session_data (line 346) is one of these references, and an object lives
\* as long as the map or a handler refers to it.
Threads == {"t1", "t2"}
ThreadSessionIds == {"s1"}
ThreadPhone == "0711"
ThreadTexts == { <<>>, <<"1">>, <<"5">> }

Idle ==
  [pc |-> "idle", session_id |-> "none", text |-> <<>>, session_data |-> 0,
   current_step |-> "none", response |-> "none"]

\* The objects the map or a handler still refers to.
Referenced(refs, wk) ==
  { refs[s] : s \in DOMAIN refs } \cup ({ wk[t].session_data : t \in Threads } \ {0})

\* Reference counting frees an object with the last reference to it.
Collect(h, refs, wk) == [o \in (DOMAIN h) \cap Referenced(refs, wk) |-> h[o]]

NewObject(h) == CHOOSE o \in 1..(Cardinality(Threads) + 1) : o \notin DOMAIN h

ThreadFrame ==
  UNCHANGED <<ussd_sessions, sms_conversations, gemini_model, openweather_key,
              ussd_out, sms_out, leftWelcome, op, price_out>>

Step(t, refs, h, wk) ==
  /\ ussd_refs' = refs
  /\ workers' = wk
  /\ heap' = Collect(h, refs, wk)
  /\ ThreadFrame
  /\ UNCHANGED <<now, sweeper>>
  /\ UNCHANGED smsThreadVars

\* Lines 328-335: a request arrives.
UssdBegin(t, session_id, raw_text) ==
  /\ workers[t].pc = "idle"
  /\ Step(t, ussd_refs, heap,
          [workers EXCEPT ![t] = [Idle EXCEPT !.pc = "check", !.session_id = session_id,
                                              !.text = Strip(raw_text)]])

\* Line 338: the membership test.
UssdCheck(t) ==
  /\ workers[t].pc = "check"
  /\ Step(t, ussd_refs, heap,
          [workers EXCEPT ![t].pc =
             IF workers[t].session_id \notin DOMAIN ussd_refs THEN "create" ELSE "get"])

\* Lines 339-344: a new dict is stored under the session id.
UssdCreate(t) ==
  /\ workers[t].pc = "create"
  /\ LET o == NewObject(heap)
     IN  Step(t, (workers[t].session_id :> o) @@ ussd_refs,
              (o :> [phone_number |-> ThreadPhone, current_step |-> "welcome",
                     data |-> <<>>, last_active |-> now, ended |-> 0]) @@ heap,
              [workers EXCEPT ![t].pc = "get"])

\* Line 346: ussd_sessions[session_id], a KeyError when the key is gone.
UssdGet(t) ==
  /\ workers[t].pc = "get"
  /\ IF workers[t].session_id \in DOMAIN ussd_refs
     THEN Step(t, ussd_refs, heap,
               [workers EXCEPT ![t].pc = "touch",
                               ![t].session_data = ussd_refs[workers[t].session_id]])
     ELSE Step(t, ussd_refs, heap,
               [workers EXCEPT ![t].pc = "return", ![t].response = "500"])

\* Line 347.
UssdTouch(t) ==
  /\ workers[t].pc = "touch"
  /\ Step(t, ussd_refs, [heap EXCEPT ![workers[t].session_data].last_active = now],
          [workers EXCEPT ![t].pc = "read"])

\* Line 354.
UssdRead(t) ==
  /\ workers[t].pc = "read"
  /\ Step(t, ussd_refs, heap,
          [workers EXCEPT ![t].pc = "dispatch",
                          ![t].current_step = heap[workers[t].session_data].current_step])

\* Lines 356-491 up to the deletion: the response is chosen and a branch
\* that moves the session assigns session_data["current_step"].
UssdDispatch(t) ==
  /\ workers[t].pc = "dispatch"
  /\ \E r \in menu_flow(workers[t].current_step, current_input_of(workers[t].text),
                        workers[t].text) :
       Step(t, ussd_refs,
            IF r.sets_step
            THEN [heap EXCEPT ![workers[t].session_data].current_step = r.current_step]
            ELSE heap,
            [workers EXCEPT ![t].pc = IF r.ended THEN "del_check" ELSE "return",
                            ![t].response = r.marker])

\* "if session_id in ussd_sessions:" before each del.
UssdDelCheck(t) ==
  /\ workers[t].pc = "del_check"
  /\ IF workers[t].session_id \in DOMAIN ussd_refs
     THEN Step(t, ussd_refs, heap, [workers EXCEPT ![t].pc = "del"])
     ELSE Step(t, ussd_refs,
               [heap EXCEPT ![workers[t].session_data].ended = @ + 1],
               [workers EXCEPT ![t].pc = "return"])

\* "del ussd_sessions[session_id]", a KeyError when the key is gone.
UssdDel(t) ==
  /\ workers[t].pc = "del"
  /\ IF workers[t].session_id \in DOMAIN ussd_refs
     THEN Step(t, Without(ussd_refs, workers[t].session_id),
               [heap EXCEPT ![workers[t].session_data].ended = @ + 1],
               [workers EXCEPT ![t].pc = "return"])
     ELSE Step(t, ussd_refs, heap,
               [workers EXCEPT ![t].pc = "return", ![t].response = "500"])

\* Line 495: the response goes out and the thread's locals are dropped.
UssdReturn(t) ==
  /\ workers[t].pc = "return"
  /\ Step(t, ussd_refs, heap, [workers EXCEPT ![t] = Idle])

\* ------------------------------------------- SMS handlers, interleaved
\* The same for sms_chatbot: sms_conversations maps a sender to a list
\* object, "history" (line 265) is a reference to it, and append changes the
\* object in place.
ThreadSender == <<"+", "2", "5", "5", "7">>
ThreadMessages == { <<"q">>, <<"H", "i">>, <<"e", "x", "i", "t">> }

SmsIdle ==
  [pc |-> "idle", sender |-> <<>>, user_message_normalized |-> <<>>, history |-> 0,
   reply_to_send |-> "none", response |-> "none"]

\* ---------------------------------------------------------- expiry sweep
\* Line 69, in the unit of the clock.
SESSION_TIMEOUT == 1

\* The latest time the clock reaches.
MaxNow == 2

\* The test of line 507 with the boundary included.
expired_at_timeout(current_time, session_info) ==
  current_time - session_info.last_active >= SESSION_TIMEOUT

\* Line 507.
expired(current_time, session_info) ==
  current_time - session_info.last_active > SESSION_TIMEOUT

\* Time passes between two operations.
Tick ==
  /\ now < MaxNow
  /\ now' = now + 1
  /\ op' = [name |-> "tick", key |-> "none", removed |-> {}]
  /\ UNCHANGED <<ussd_sessions, sms_conversations, gemini_model, openweather_key,
                 ussd_out, sms_out, leftWelcome>>
  /\ UNCHANGED threadVars

\* cleanup_old_sessions(), run from start to end with no request in between.
cleanup_old_sessions ==
  LET current_time == now
      sessions_to_delete ==
        { session_id \in DOMAIN ussd_sessions :
            expired(current_time, ussd_sessions[session_id]) }
  IN  /\ ussd_sessions' =
           [session_id \in (DOMAIN ussd_sessions) \ sessions_to_delete |->
              ussd_sessions[session_id]]
      /\ op' = [name |-> "sweep", key |-> "none", removed |-> sessions_to_delete]
      /\ UNCHANGED <<sms_conversations, gemini_model, openweather_key, now,
                     ussd_out, sms_out, leftWelcome>>
      /\ UNCHANGED threadVars

\* Requests, sweeps and the clock, one operation at a time.
SweepTexts == { <<>>, <<"1">>, <<"5">> }

NextSweep ==
  \/ \E session_id \in SessionIds, raw_text \in SweepTexts :
       agricultural_ussd(session_id, ThreadPhone, raw_text)
  \/ cleanup_old_sessions
  \/ Tick

\* ------------------------------- expiry sweep interleaved with a handler
\* cleanup_old_sessions() running in a thread of its own while a request is
\* handled: its locals, the size the dict had when the loop of line 506
\* started and the keys the loop has visited.
SweeperIdle ==
  [pc |-> "idle", current_time |-> 0, sessions_to_delete |-> <<>>, size |-> 0,
   visited |-> {}, raised |-> "none"]

RequestThread == "t1"

SweepStep(refs, sw) ==
  /\ ussd_refs' = refs
  /\ sweeper' = sw
  /\ heap' = Collect(heap, refs, workers)
  /\ ThreadFrame
  /\ UNCHANGED <<now, workers>>
  /\ UNCHANGED smsThreadVars

\* Lines 502-506: the time is read and the iteration over the dict starts.
SweepStart ==
  /\ sweeper.pc = "idle"
  /\ SweepStep(ussd_refs,
               [SweeperIdle EXCEPT !.pc = "iterate", !.current_time = now,
                                   !.size = Cardinality(DOMAIN ussd_refs)])

\* Lines 506-508: the next item of the iteration.  A dict whose size has
\* changed since the loop started raises RuntimeError; otherwise a key not
\* yet visited is examined, and with none left the loop ends.
SweepNext ==
  /\ sweeper.pc = "iterate"
  /\ IF Cardinality(DOMAIN ussd_refs) # sweeper.size
     THEN SweepStep(ussd_refs, [SweeperIdle EXCEPT !.raised = "RuntimeError"])
     ELSE IF (DOMAIN ussd_refs) \ sweeper.visited = {}
     THEN SweepStep(ussd_refs, [sweeper EXCEPT !.pc = "delete"])
     ELSE \E session_id \in (DOMAIN ussd_refs) \ sweeper.visited :
            SweepStep(ussd_refs,
                      [sweeper EXCEPT
                         !.visited = @ \cup {session_id},
                         !.sessions_to_delete =
                           IF expired(sweeper.current_time, heap[ussd_refs[session_id]])
                           THEN Append(@, session_id) ELSE @])

\* Lines 510-512: "del ussd_sessions[session_id]" for the next id of the
\* list, a KeyError when the key is gone.
SweepDelete ==
  /\ sweeper.pc = "delete"
  /\ IF sweeper.sessions_to_delete = <<>>
     THEN SweepStep(ussd_refs, SweeperIdle)
     ELSE LET session_id == Head(sweeper.sessions_to_delete)
          IN  IF session_id \in DOMAIN ussd_refs
              THEN SweepStep(Without(ussd_refs, session_id),
                             [sweeper EXCEPT !.sessions_to_delete = Tail(@)])
              ELSE SweepStep(ussd_refs, [SweeperIdle EXCEPT !.raised = "KeyError"])

\* The list objects the map or a handler still refers to.
SmsReferenced(refs, wk) ==
  { refs[x] : x \in DOMAIN refs } \cup ({ wk[t].history : t \in Threads } \ {0})

SmsCollect(h, refs, wk) == [o \in (DOMAIN h) \cap SmsReferenced(refs, wk) |-> h[o]]

NewList(h) == CHOOSE o \in 1..(2 * Cardinality(Threads) + 1) : o \notin DOMAIN h

SmsStep(t, refs, h, wk) ==
  /\ sms_refs' = refs
  /\ sms_workers' = wk
  /\ sms_heap' = SmsCollect(h, refs, wk)
  /\ ThreadFrame
  /\ UNCHANGED <<now, sweeper, ussd_refs, heap, workers>>

\* Requests in flight, each of which may still append two turns, and the
\* length of the longest list alive.
InFlight == Cardinality({ t \in Threads : sms_workers[t].pc # "idle" })

RECURSIVE LongestList(_)
LongestList(objects) ==
  IF objects = {} THEN 0
  ELSE LET o == CHOOSE x \in objects : TRUE
           rest == LongestList(objects \ {o})
       IN  IF Len(sms_heap[o]) > rest THEN Len(sms_heap[o]) ELSE rest

\* Lines 240-250: a message arrives with its sender and text.
SmsBegin(t, sender, message_text) ==
  /\ sms_workers[t].pc = "idle"
  /\ LET user_message_normalized == Strip(Lower(message_text))
     IN  /\ \/ is_greeting(user_message_normalized)
            \/ is_exit(user_message_normalized)
            \/ LongestList(DOMAIN sms_heap) + 2 * InFlight + 2 <= MaxTurns
         /\ SmsStep(t, sms_refs, sms_heap,
                    [sms_workers EXCEPT ![t] =
                       [SmsIdle EXCEPT !.pc = "check", !.sender = sender,
                                       !.user_message_normalized = user_message_normalized]])

\* Line 254: the test for a new sender or a greeting.
SmsCheck(t) ==
  /\ sms_workers[t].pc = "check"
  /\ SmsStep(t, sms_refs, sms_heap,
             [sms_workers EXCEPT ![t].pc =
                IF sms_workers[t].sender \notin DOMAIN sms_refs
                   \/ is_greeting(sms_workers[t].user_message_normalized)
                THEN "reset" ELSE "get"])

\* Lines 255-262: a fresh list is stored and the welcome is sent.
SmsReset(t) ==
  /\ sms_workers[t].pc = "reset"
  /\ LET o == NewList(sms_heap)
     IN  SmsStep(t, (sms_workers[t].sender :> o) @@ sms_refs, (o :> <<>>) @@ sms_heap,
                 [sms_workers EXCEPT ![t].pc = "return", ![t].reply_to_send = WelcomeMessage,
                                     ![t].response = "ok"])

\* Lines 265-269: history refers to the stored list, or to a new list that
\* is not stored when the sender is gone; then the exit test.
SmsGet(t) ==
  /\ sms_workers[t].pc = "get"
  /\ LET x == sms_workers[t].sender
         next_pc == IF is_exit(sms_workers[t].user_message_normalized)
                    THEN "del_check" ELSE "append_user"
     IN  IF x \in DOMAIN sms_refs
         THEN SmsStep(t, sms_refs, sms_heap,
                      [sms_workers EXCEPT ![t].pc = next_pc, ![t].history = sms_refs[x]])
         ELSE LET o == NewList(sms_heap)
              IN  SmsStep(t, sms_refs, (o :> <<>>) @@ sms_heap,
                          [sms_workers EXCEPT ![t].pc = next_pc, ![t].history = o])

\* Lines 270-272: the farewell is sent, then "if session_id in
\* sms_conversations:".
SmsDelCheck(t) ==
  /\ sms_workers[t].pc = "del_check"
  /\ SmsStep(t, sms_refs, sms_heap,
             [sms_workers EXCEPT
                ![t].pc = IF sms_workers[t].sender \in DOMAIN sms_refs THEN "del" ELSE "return",
                ![t].reply_to_send = FarewellMessage, ![t].response = "ok"])

\* Line 273: "del sms_conversations[session_id]", a KeyError when the key
\* is gone.
SmsDel(t) ==
  /\ sms_workers[t].pc = "del"
  /\ IF sms_workers[t].sender \in DOMAIN sms_refs
     THEN SmsStep(t, Without(sms_refs, sms_workers[t].sender), sms_heap,
                  [sms_workers EXCEPT ![t].pc = "return"])
     ELSE SmsStep(t, sms_refs, sms_heap,
                  [sms_workers EXCEPT ![t].pc = "return", ![t].response = "500"])

\* Line 279: history.append of the user turn, in place.
SmsAppendUser(t) ==
  /\ sms_workers[t].pc = "append_user"
  /\ SmsStep(t, sms_refs,
             [sms_heap EXCEPT ![sms_workers[t].history] =
                Append(@, UserTurn(sms_workers[t].user_message_normalized))],
             [sms_workers EXCEPT ![t].pc = IF advisor_available THEN "call" ELSE "append_model",
                                 ![t].reply_to_send =
                                   IF advisor_available THEN "none" ELSE UnavailableMessage])

\* Lines 286-302 and 308-310: the list is copied for the advisor and the
\* blocking call returns a text or fails.
SmsCall(t) ==
  /\ sms_workers[t].pc = "call"
  /\ \E reply \in {AdvisorReply, TechnicalMessage} :
       SmsStep(t, sms_refs, sms_heap,
               [sms_workers EXCEPT ![t].pc = "append_model", ![t].reply_to_send = reply])

\* Lines 305, 311, 316: history.append of the model turn, in place.
SmsAppendModel(t) ==
  /\ sms_workers[t].pc = "append_model"
  /\ SmsStep(t, sms_refs,
             [sms_heap EXCEPT ![sms_workers[t].history] =
                Append(@, ModelTurn(sms_workers[t].reply_to_send))],
             [sms_workers EXCEPT ![t].pc = "store"])

\* Lines 306, 312, 317: the list is stored under the sender again; then
\* the reply is sent (line 320).
SmsStore(t) ==
  /\ sms_workers[t].pc = "store"
  /\ SmsStep(t, (sms_workers[t].sender :> sms_workers[t].history) @@ sms_refs, sms_heap,
             [sms_workers EXCEPT ![t].pc = "return", ![t].response = "ok"])

\* Lines 262, 275, 322: the acknowledgement goes out.
SmsReturn(t) ==
  /\ sms_workers[t].pc = "return"
  /\ SmsStep(t, sms_refs, sms_heap, [sms_workers EXCEPT ![t] = SmsIdle])

NextSmsThreads ==
  \E t \in Threads :
    \/ \E message_text \in ThreadMessages : SmsBegin(t, ThreadSender, message_text)
    \/ SmsCheck(t)
    \/ SmsReset(t)
    \/ SmsGet(t)
    \/ SmsDelCheck(t)
    \/ SmsDel(t)
    \/ SmsAppendUser(t)
    \/ SmsCall(t)
    \/ SmsAppendModel(t)
    \/ SmsStore(t)
    \/ SmsReturn(t)

NextThreads ==
  \E t \in Threads :
    \/ \E s \in ThreadSessionIds, raw_text \in ThreadTexts : UssdBegin(t, s, raw_text)
    \/ UssdCheck(t)
    \/ UssdCreate(t)
    \/ UssdGet(t)
    \/ UssdTouch(t)
    \/ UssdRead(t)
    \/ UssdDispatch(t)
    \/ UssdDelCheck(t)
    \/ UssdDel(t)
    \/ UssdReturn(t)

Init ==
  /\ ussd_sessions = <<>>
  /\ sms_conversations = <<>>
  /\ gemini_model \in BOOLEAN
  /\ openweather_key \in BOOLEAN
  /\ now = 0
  /\ ussd_out = NoUssdOut
  /\ sms_out = NoSmsOut
  /\ leftWelcome = {}
  /\ ussd_refs = <<>>
  /\ heap = <<>>
  /\ workers = [t \in Threads |-> Idle]
  /\ sms_refs = <<>>
  /\ sms_heap = <<>>
  /\ sms_workers = [t \in Threads |-> SmsIdle]
  /\ sweeper = SweeperIdle
  /\ op = NoOp
  /\ price_out = NoPriceOut

Next == UssdRequest

Spec == Init /\ [][Next]_vars

NextSms == SmsRequest

SpecSms == Init /\ [][NextSms]_vars

SpecThreads == Init /\ [][NextThreads]_vars

SpecSmsThreads == Init /\ [][NextSmsThreads]_vars

SpecSweep == Init /\ [][NextSweep]_vars

\* The program as it runs: app.run() serves requests while time passes, and
\* nothing calls cleanup_old_sessions().  Time always passes; whether
\* another request arrives is up to the users.
NextRunning ==
  \/ \E session_id \in SessionIds, raw_text \in SweepTexts :
       agricultural_ussd(session_id, ThreadPhone, raw_text)
  \/ Tick

SpecRunning == Init /\ [][NextRunning]_vars /\ WF_vars(Tick)

\* get_crop_prices() called with any crop name and region.
PriceLookup ==
  \E crop_name \in CropNames, region \in Regions :
    /\ price_out' = [crop_name |-> crop_name, region |-> region,
                     result |-> get_crop_prices(crop_name, region)]
    /\ UNCHANGED <<ussd_sessions, sms_conversations, gemini_model, openweather_key, now,
                   ussd_out, sms_out, leftWelcome, ussd_refs, heap, workers,
                   sms_refs, sms_heap, sms_workers, sweeper, op>>

NextPrice == PriceLookup

SpecPrice == Init /\ [][NextPrice]_vars

\* Both handlers and the sweep, one operation at a time, with session ids
\* and senders drawn from the same strings, in a process started without
\* the advisor and weather credentials.
FrameTexts == { <<>>, <<"5">> }
FrameMessages == { <<"q">>, <<"e", "x", "i", "t">> }

InitFrame == Init /\ ~gemini_model /\ ~openweather_key

NextFrame ==
  \/ \E session_id \in Senders, raw_text \in FrameTexts :
       agricultural_ussd(session_id, ThreadPhone, raw_text)
  \/ \E sender \in Senders, message_text \in FrameMessages :
       sms_chatbot(sender, message_text)
  \/ cleanup_old_sessions
  \/ Tick

SpecFrame == InitFrame /\ [][NextFrame]_vars

NextSweepThreads ==
  \/ \E s \in ThreadSessionIds, raw_text \in ThreadTexts :
       UssdBegin(RequestThread, s, raw_text)
  \/ UssdCheck(RequestThread)
  \/ UssdCreate(RequestThread)
  \/ UssdGet(RequestThread)
  \/ UssdTouch(RequestThread)
  \/ UssdRead(RequestThread)
  \/ UssdDispatch(RequestThread)
  \/ UssdDelCheck(RequestThread)
  \/ UssdDel(RequestThread)
  \/ UssdReturn(RequestThread)
  \/ SweepStart
  \/ SweepNext
  \/ SweepDelete
  \/ Tick

SpecSweepThreads == Init /\ [][NextSweepThreads]_vars

\* ===================================================== claims, USSD menu
Handled == ussd_out.session_id \in SessionIds
Stored(s) == s \in DOMAIN ussd_sessions
SeenStep == ussd_out.current_step
LastSegmentEmpty == ussd_out.text_empty \/ ussd_out.current_input = <<>>

\* C1: every response to a USSD request starts with CON or END; after END the
\* request's session id is not a key of ussd_sessions, after CON it is.
C1_MarkerMatchesStore ==
  Handled =>
    /\ ussd_out.marker \in {"CON", "END"}
    /\ ussd_out.marker = "END" => ~Stored(ussd_out.session_id)
    /\ ussd_out.marker = "CON" => Stored(ussd_out.session_id)

\* C3 as stated: any first contact, whatever its text, is answered with the
\* CON main menu and leaves the session stored at step main_menu_choice.
C3_AnyFirstContactShowsMenu ==
  (Handled /\ ussd_out.before = None) =>
    /\ SeenStep = "welcome"
    /\ ussd_out.marker = "CON" /\ ussd_out.body = "main_menu"
    /\ Stored(ussd_out.session_id)
    /\ ussd_sessions[ussd_out.session_id].current_step = "main_menu_choice"

\* C3 amended: a first contact creates the record at step welcome; with an
\* empty text (or a last segment that is the word "default") it is answered
\* with the CON main menu and stored at main_menu_choice with the request's
\* phone number and empty data; with any other text it is answered with the
\* END generic error and the record is removed again.
C3_FirstContactByText ==
  (Handled /\ ussd_out.before = None) =>
    /\ SeenStep = "welcome"
    /\ IF ussd_out.text_empty \/ ussd_out.current_input = <<"default">>
       THEN /\ ussd_out.marker = "CON" /\ ussd_out.body = "main_menu"
            /\ Stored(ussd_out.session_id)
            /\ ussd_sessions[ussd_out.session_id].current_step = "main_menu_choice"
            /\ ussd_sessions[ussd_out.session_id].data = <<>>
       ELSE /\ ussd_out.marker = "END" /\ ussd_out.body = "generic_error"
            /\ ~Stored(ussd_out.session_id)

C3_Witness ==
  /\ Handled /\ ussd_out.before = None /\ ussd_out.text_empty
  /\ ussd_out.body = "main_menu"

\* C4 as stated: a session id that has left step welcome is never observed
\* at welcome by a later request.
C4_NeverWelcomeAgain ==
  [][ (ussd_out' # ussd_out \/ ussd_sessions' # ussd_sessions) =>
        ~(ussd_out'.session_id \in leftWelcome /\ ussd_out'.current_step = "welcome") ]_vars

\* C4 amended: no stored record is at step welcome once its request has
\* returned, and a request observes step welcome only when it has itself
\* just created the record, the id having had no record before it.
C4_WelcomeOnlyOnCreation ==
  /\ \A s \in DOMAIN ussd_sessions : ussd_sessions[s].current_step # "welcome"
  /\ Handled /\ SeenStep = "welcome" => ussd_out.before = None
  /\ Handled /\ ussd_out.before # None => ussd_out.before.current_step # "welcome"

\* A request for an id whose earlier record left welcome and was deleted.
C4_Witness ==
  /\ Handled /\ ussd_out.session_id \in leftWelcome
  /\ ussd_out.before # None /\ ussd_out.before.current_step = "crop_price_choice"
  /\ ussd_out.current_input = <<"99">>

\* C5: from main_menu_choice the last segment alone decides: 1, 2, 4 continue
\* to the crop, query and logistics steps, 3 and 5 end and delete the
\* session, anything else re-prompts at main_menu_choice.
C5_MainMenuTransitions ==
  (Handled /\ SeenStep = "main_menu_choice") =>
    LET s == ussd_out.session_id
        in == ussd_out.current_input
        ContinuesAt(step) ==
          /\ ussd_out.marker = "CON" /\ Stored(s)
          /\ ussd_sessions[s].current_step = step
        Ends == ussd_out.marker = "END" /\ ~Stored(s)
    IN  CASE in = <<"1">> -> ContinuesAt("crop_price_choice")
          [] in = <<"2">> -> ContinuesAt("ai_advice_query")
          [] in = <<"4">> -> ContinuesAt("logistics_info_choice")
          [] in = <<"3">> -> Ends /\ ussd_out.body \in {"weather", "weather_apology"}
          [] in = <<"5">> -> Ends /\ ussd_out.body = "farewell"
          [] OTHER -> ContinuesAt("main_menu_choice") /\ ussd_out.body = "invalid_main_menu"

ExpectedCrop == (<<"1">> :> Maize) @@ (<<"2">> :> Beans) @@ (<<"3">> :> Rice) @@ (<<"4">> :> Tomato)
ExpectedPrice ==
  (<<"1">> :> "780 TZS/kg") @@ (<<"2">> :> "1950 TZS/kg") @@ (<<"3">> :> "1300 TZS/kg")
  @@ (<<"4">> :> "1650 TZS/kg")

\* C6: "" then "1" then "1*k" ends with the Dar es Salaam price of the k-th
\* crop and that crop's forecast, and the session is gone: the first request
\* of a fresh id with "" stores main_menu_choice, "1" there stores
\* crop_price_choice, and k there gives the END price response.
C6_PriceOfChosenCrop ==
  Handled =>
    LET s == ussd_out.session_id
        in == ussd_out.current_input
    IN  /\ (ussd_out.before = None /\ ussd_out.text_empty) =>
             Stored(s) /\ ussd_sessions[s].current_step = "main_menu_choice"
        /\ (SeenStep = "main_menu_choice" /\ in = <<"1">>) =>
             Stored(s) /\ ussd_sessions[s].current_step = "crop_price_choice"
        /\ (SeenStep = "crop_price_choice" /\ in \in DOMAIN ExpectedCrop) =>
             /\ ussd_out.marker = "END" /\ ussd_out.body = "price"
             /\ ussd_out.detail.price_info =
                  [kind |-> "price", crop |-> ExpectedCrop[in],
                   region |-> "Dar es Salaam", price |-> ExpectedPrice[in]]
             /\ ussd_out.detail.forecast_info =
                  [kind |-> "forecast", crop |-> ExpectedCrop[in],
                   text |-> forecasts[Lower(ExpectedCrop[in])]]
             /\ ~Stored(s)

C6_Witness ==
  /\ Handled /\ SeenStep = "crop_price_choice" /\ ussd_out.current_input = <<"2">>
  /\ ussd_out.body = "price" /\ ussd_out.detail.price_info.price = "1950 TZS/kg"
  /\ ~Stored(ussd_out.session_id)

\* C7: in the crop, query and logistics steps 99 gives the CON main menu and
\* step main_menu_choice; an unknown choice in the crop or logistics step
\* re-prompts with the step unchanged; the session stays stored with the
\* same phone number and data and no external call is made.
C7_BackAndReprompt ==
  (Handled /\ ussd_out.before # None) =>
    LET s == ussd_out.session_id
        in == ussd_out.current_input
        Kept(step, body) ==
          /\ ussd_out.marker = "CON" /\ ussd_out.body = body
          /\ Stored(s)
          /\ ussd_sessions[s].current_step = step
          /\ ussd_sessions[s].phone_number = ussd_out.before.phone_number
          /\ ussd_sessions[s].data = ussd_out.before.data
          /\ ussd_out.weather_calls = 0 /\ ussd_out.advisor_calls = 0
          /\ ussd_out.sms_calls = 0
    IN  /\ (SeenStep \in {"crop_price_choice", "ai_advice_query", "logistics_info_choice"}
            /\ in = <<"99">>) => Kept("main_menu_choice", "main_menu")
        /\ (SeenStep = "crop_price_choice"
            /\ in \notin {<<"1">>, <<"2">>, <<"3">>, <<"4">>, <<"99">>}) =>
             Kept("crop_price_choice", "invalid_crop_list")
        /\ (SeenStep = "logistics_info_choice" /\ in \notin {<<"1">>, <<"2">>, <<"99">>}) =>
             Kept("logistics_info_choice", "invalid_logistics_list")

\* A back step taken from the logistics step.
C7_Witness ==
  /\ Handled /\ SeenStep = "logistics_info_choice" /\ ussd_out.current_input = <<"99">>
  /\ Stored(ussd_out.session_id)
  /\ ussd_sessions[ussd_out.session_id].current_step = "main_menu_choice"

\* C8: at ai_advice_query an empty last segment gives the CON query prompt,
\* keeps the step and the session and calls no advisor; the session ends and
\* the advisor is called only for a non-empty last segment.
C8_EmptyInputReprompts ==
  (Handled /\ SeenStep = "ai_advice_query") =>
    LET s == ussd_out.session_id
    IN  /\ LastSegmentEmpty =>
             /\ ussd_out.marker = "CON" /\ ussd_out.body = "query_reprompt"
             /\ Stored(s) /\ ussd_sessions[s].current_step = "ai_advice_query"
             /\ ussd_out.advisor_calls = 0
        /\ (ussd_out.marker = "END" \/ ussd_out.advisor_calls > 0) => ~LastSegmentEmpty

\* C20: get_current_weather hands its caller a snapshot or None and raises
\* nothing, whatever the HTTP call does, so that choice 3 at
\* main_menu_choice is always answered with the END weather text or the END
\* apology.
C20_WeatherNeverRaises ==
  (Handled /\ SeenStep = "main_menu_choice" /\ ussd_out.current_input = <<"3">>) =>
    /\ ~ussd_out.fault
    /\ ussd_out.marker = "END"
    /\ \/ ussd_out.body = "weather" /\ ussd_out.detail.kind = "snapshot"
       \/ ussd_out.body = "weather_apology" /\ ussd_out.detail = None

\* The crop each spelling of CropNames names, whatever its case and spaces.
SpelledCrop ==
  (Maize :> "maize") @@ (<<"m", "a", "i", "z", "e">> :> "maize")
  @@ (<<"M", "A", "I", "Z", "E">> :> "maize")
  @@ (<<"m", "a", "i", " ", "z", "e">> :> "maize")
  @@ (<<" ", "M", "a", "i", "z", "e">> :> "maize")
  @@ (Beans :> "beans") @@ (<<"b", "E", "a", "n", "s", " ">> :> "beans")
  @@ (<<"R", "I", "C", "E">> :> "rice")
  @@ (<<"t", "o", "m", "a", "t", "o">> :> "tomato")
  @@ (<<"t", "o", "m", "a", "t", "o", "e", "s">> :> "none")
  @@ (<<"c", "a", "s", "s", "a", "v", "a">> :> "none")
  @@ (<<>> :> "none")

PriceTable ==
  ("maize" :> ("Dar es Salaam" :> "780 TZS/kg" @@ "Iringa" :> "720 TZS/kg"
               @@ "Mbeya" :> "750 TZS/kg"))
  @@ ("beans" :> ("Dar es Salaam" :> "1950 TZS/kg" @@ "Morogoro" :> "1800 TZS/kg"))
  @@ ("rice" :> ("Dar es Salaam" :> "1300 TZS/kg" @@ "Mwanza" :> "1200 TZS/kg"))
  @@ ("tomato" :> ("Dar es Salaam" :> "1650 TZS/kg" @@ "Arusha" :> "1450 TZS/kg"))

PriceLooked == price_out.region \in Regions

\* C21: a price lookup for a crop and region with an entry in the table, the
\* crop spelled in any case and with any spaces, returns that entry's
\* price; for any other pair it returns the not-available message with the
\* crop and the region asked for; it always returns one of the two.
C21_PriceOrNotAvailable ==
  PriceLooked =>
    LET crop == SpelledCrop[price_out.crop_name]
        result == price_out.result
    IN  /\ result.kind \in {"price", "price_unavailable"}
        /\ result.region = price_out.region
        /\ Lower(result.crop) = Lower(price_out.crop_name)
        /\ IF crop \in DOMAIN PriceTable /\ price_out.region \in DOMAIN PriceTable[crop]
           THEN result.kind = "price" /\ result.price = PriceTable[crop][price_out.region]
           ELSE result.kind = "price_unavailable"

\* A crop spelled with a space and in lower case, found in the table.
C21_Witness ==
  /\ price_out.crop_name = <<"m", "a", "i", " ", "z", "e">>
  /\ price_out.region = "Iringa"
  /\ price_out.result.kind = "price" /\ price_out.result.price = "720 TZS/kg"

\* ==================================================== claims, SMS dialogue
\* The last request carried a sender and a text.
WellFormedTurn == sms_out.sender \in Senders /\ sms_out.text_present
HasSession(x) == x \in DOMAIN sms_conversations
Hi == <<"h", "i">>
Habari == <<"h", "a", "b", "a", "r", "i">>
Mambo == <<"m", "a", "m", "b", "o">>
Exit == <<"e", "x", "i", "t">>

\* C9: a turn whose normalized text is hi, habari or mambo, and any turn of
\* a sender without a session, leaves the sender with an empty history,
\* sends the welcome message once, calls no advisor and records no turn.
C9_GreetingResets ==
  (WellFormedTurn /\ (~sms_out.had_session \/ sms_out.normalized \in {Hi, Habari, Mambo})) =>
    /\ HasSession(sms_out.sender)
    /\ sms_conversations[sms_out.sender] = <<>>
    /\ Len(sms_out.sent) = 1
    /\ sms_out.sent[1].message = WelcomeMessage
    /\ sms_out.advisor_calls = 0

\* A greeting that arrives in the middle of a conversation.
C9_Witness ==
  /\ WellFormedTurn /\ sms_out.had_session /\ Len(sms_out.before) = 2
  /\ sms_out.normalized = Mambo
  /\ sms_conversations[sms_out.sender] = <<>>

\* C10: exit from a sender with a session sends the farewell, removes the
\* session, calls no advisor and records no turn; exit from a sender without
\* a session creates an empty session and sends the welcome instead.
C10_ExitEndsOrWelcomes ==
  (WellFormedTurn /\ sms_out.normalized = Exit) =>
    /\ Len(sms_out.sent) = 1
    /\ sms_out.advisor_calls = 0
    /\ IF sms_out.had_session
       THEN /\ sms_out.sent[1].message = FarewellMessage
            /\ ~HasSession(sms_out.sender)
       ELSE /\ sms_out.sent[1].message = WelcomeMessage
            /\ HasSession(sms_out.sender)
            /\ sms_conversations[sms_out.sender] = <<>>

C10_Witness ==
  /\ WellFormedTurn /\ sms_out.had_session /\ Len(sms_out.before) = 2
  /\ sms_out.normalized = Exit
  /\ ~HasSession(sms_out.sender)

\* A turn that is neither a first contact, nor a greeting, nor an exit.
OrdinaryTurn ==
  /\ WellFormedTurn /\ sms_out.had_session
  /\ sms_out.normalized \notin {Hi, Habari, Mambo, Exit}

\* C11: on an ordinary turn with the advisor configured, the advisor is
\* called once, its history is the turns stored before this turn in their
\* order, its prompt is the normalized text, and that history is empty or
\* ends with a model turn.
C11_AdvisorGetsPriorHistory ==
  (OrdinaryTurn /\ gemini_model) =>
    /\ sms_out.advisor_calls = 1
    /\ sms_out.chat_history = sms_out.before
    /\ sms_out.prompt = sms_out.normalized
    /\ \/ sms_out.chat_history = <<>>
       \/ Last(sms_out.chat_history).role = "model"

\* The second ordinary turn of a conversation.
C11_Witness ==
  /\ OrdinaryTurn /\ gemini_model /\ sms_out.advisor_calls = 1
  /\ Len(sms_out.before) = 2 /\ sms_out.chat_history = sms_out.before
  /\ sms_out.prompt = <<"q">>

\* C12: on an ordinary turn with the advisor configured, the history grows
\* by a user turn with the normalized text and one model turn, the advisor's
\* text or, when the call fails, the technical-difficulty message; that model
\* text is the one message sent, the session stays and the answer is ok.
C12_TwoTurnsAppended ==
  (OrdinaryTurn /\ gemini_model) =>
    LET x == sms_out.sender
        model_text == IF sms_out.outcome = "text" THEN AdvisorReply ELSE TechnicalMessage
    IN  /\ sms_out.outcome \in {"text", "error"}
        /\ HasSession(x)
        /\ sms_conversations[x] =
             sms_out.before \o <<UserTurn(sms_out.normalized), ModelTurn(model_text)>>
        /\ Len(sms_out.sent) = 1
        /\ sms_out.sent[1].message = model_text
        /\ sms_out.status = 200

\* A failed advisor call on an ordinary turn.
C12_Witness ==
  /\ OrdinaryTurn /\ gemini_model /\ sms_out.outcome = "error"
  /\ Last(sms_conversations[sms_out.sender]) = ModelTurn(TechnicalMessage)
  /\ sms_out.status = 200

\* C13 as stated: with the advisor not configured, the reply to every turn
\* is the unavailable-service message and no call is made to the advisor.
C13_EveryReplyUnavailable ==
  (WellFormedTurn /\ ~gemini_model) =>
    /\ Len(sms_out.sent) = 1
    /\ sms_out.sent[1].message = UnavailableMessage
    /\ sms_out.advisor_calls = 0

\* C13 amended: with the advisor not configured no turn calls the advisor,
\* the reply to an ordinary turn is the unavailable-service message, which
\* is also the model turn stored, while a first contact or a greeting is
\* answered with the welcome and an exit with the farewell.
C13_OrdinaryRepliesUnavailable ==
  ~gemini_model =>
    /\ sms_out.advisor_calls = 0
    /\ WellFormedTurn =>
         /\ Len(sms_out.sent) = 1
         /\ sms_out.sent[1].message =
              IF ~sms_out.had_session \/ sms_out.normalized \in {Hi, Habari, Mambo}
              THEN WelcomeMessage
              ELSE IF sms_out.normalized = Exit THEN FarewellMessage
              ELSE UnavailableMessage
    /\ OrdinaryTurn =>
         Last(sms_conversations[sms_out.sender]) = ModelTurn(UnavailableMessage)

C13_Witness ==
  /\ ~gemini_model /\ OrdinaryTurn /\ Len(sms_out.before) = 2
  /\ sms_out.sent[1].message = UnavailableMessage
  /\ sms_out.advisor_calls = 0

\* C14: a request with a sender and a text sends exactly one message, with
\* the sender as its recipient, and is answered ok; a request without a
\* sender or without a text sends nothing, is answered 400 and leaves
\* sms_conversations as it was.
C14_OneMessagePerTurn ==
  [][ IF sms_out'.sender \in Senders /\ sms_out'.text_present
      THEN /\ Len(sms_out'.sent) = 1
           /\ sms_out'.sent[1].phone = sms_out'.sender
           /\ sms_out'.status = 200
      ELSE /\ sms_out'.sent = <<>>
           /\ sms_out'.status = 400
           /\ sms_conversations' = sms_conversations ]_vars

\* A request without a text from a sender in the middle of a conversation.
C14_Witness ==
  /\ sms_out.sender \in Senders /\ ~sms_out.text_present
  /\ sms_out.status = 400 /\ sms_out.sent = <<>>
  /\ HasSession(sms_out.sender) /\ Len(sms_conversations[sms_out.sender]) = 2

\* User, model, user, model, ...: an even number of turns.
Alternates(turns) ==
  /\ Len(turns) % 2 = 0
  /\ \A i \in 1..Len(turns) : turns[i].role = IF i % 2 = 1 THEN "user" ELSE "model"

\* C22: with turns handled one at a time, after every request each stored
\* history has even length and alternates user and model turns starting
\* with a user turn; a history is empty only when the sender's turn just
\* handled was a first contact or a greeting, or when it was empty before
\* and the request was not a turn of that sender.
C22_HistoriesAlternate ==
  [][ \A x \in DOMAIN sms_conversations' :
        /\ Alternates(sms_conversations'[x])
        /\ sms_conversations'[x] = <<>> =>
             IF sms_out'.sender = x /\ sms_out'.text_present
             THEN ~sms_out'.had_session \/ sms_out'.normalized \in {Hi, Habari, Mambo}
             ELSE x \in DOMAIN sms_conversations /\ sms_conversations[x] = <<>> ]_vars

\* A history of two exchanges, the first with a failed advisor call and the
\* second with a successful one.
C22_Witness ==
  \E x \in DOMAIN sms_conversations :
    /\ Len(sms_conversations[x]) = 4
    /\ sms_conversations[x][2] = ModelTurn(TechnicalMessage)
    /\ sms_conversations[x][4] = ModelTurn(AdvisorReply)

\* ========================================================= claims, sweep
\* C18: a sweep removes exactly the sessions with now - last_active greater
\* than the timeout and leaves every other session as it was; a request
\* leaves its session, when it stays stored, with last_active equal to the
\* time of the request, and the passing of time changes no session.
C18_SweepDeletesExactlyExpired ==
  [][ /\ op'.name = "sweep" =>
           /\ DOMAIN ussd_sessions' =
                { s \in DOMAIN ussd_sessions :
                    ~(now - ussd_sessions[s].last_active > SESSION_TIMEOUT) }
           /\ \A s \in DOMAIN ussd_sessions' : ussd_sessions'[s] = ussd_sessions[s]
      /\ op'.name = "ussd" =>
           (op'.key \in DOMAIN ussd_sessions' => ussd_sessions'[op'.key].last_active = now)
      /\ op'.name = "tick" => ussd_sessions' = ussd_sessions ]_vars

\* A sweep that removed s1 and kept s2, whose last request is exactly the
\* timeout old.
C18_Witness ==
  /\ op.name = "sweep" /\ op.removed = {"s1"}
  /\ ~Stored("s1") /\ Stored("s2")
  /\ now - ussd_sessions["s2"].last_active = SESSION_TIMEOUT

\* Every key but k has the same record, or none, before and after the step.
OthersUnchanged(before, after, k) ==
  \A j \in ((DOMAIN before) \cup (DOMAIN after)) \ {k} :
    /\ j \in DOMAIN before /\ j \in DOMAIN after
    /\ after[j] = before[j]

\* C19: a USSD request changes at most the record of its session id in
\* ussd_sessions and nothing in sms_conversations; an SMS turn changes at
\* most the record of its sender in sms_conversations and nothing in
\* ussd_sessions; the sweep changes nothing in sms_conversations; also when
\* a session id and a sender are the same string.
C19_OtherRecordsUnchanged ==
  [][ /\ op'.name = "ussd" =>
           /\ OthersUnchanged(ussd_sessions, ussd_sessions', op'.key)
           /\ sms_conversations' = sms_conversations
      /\ op'.name = "sms" =>
           /\ OthersUnchanged(sms_conversations, sms_conversations', op'.key)
           /\ ussd_sessions' = ussd_sessions
      /\ op'.name = "sweep" => sms_conversations' = sms_conversations ]_vars

\* A USSD request that ended the session of an id under which, as a sender,
\* a conversation of two turns is stored, while the other id has a session.
C19_Witness ==
  /\ op.name = "ussd" /\ ussd_out.marker = "END"
  /\ op.key \notin DOMAIN ussd_sessions
  /\ op.key \in DOMAIN sms_conversations /\ Len(sms_conversations[op.key]) = 2
  /\ DOMAIN ussd_sessions # {}

\* Session s is stored and has been idle for longer than the timeout.
IdleTooLong(s) ==
  Stored(s) /\ now - ussd_sessions[s].last_active > SESSION_TIMEOUT

\* C25: in the running program a session that has been idle for longer than
\* the timeout does not stay so: it is removed from ussd_sessions (unless a
\* further request refreshes it first).
C25_AbandonedSessionRemoved ==
  \A s \in SessionIds : IdleTooLong(s) ~> ~IdleTooLong(s)

\* ============================================ claims, interleaved handlers
\* C2: between its creation and its deletion a session record gets at most
\* one END response, however the handlers of its requests interleave.
C2_OneTerminalResponsePerRecord ==
  \A o \in DOMAIN heap : heap[o].ended <= 1

\* C16: a request is interpreted against the step its session has now: when
\* a handler is about to dispatch on the step it read, the session is still
\* stored under its id, as the record the handler holds, and its step is the
\* one the handler read, so that no other request has replaced it meanwhile.
C16_StepReadIsCurrent ==
  \A t \in Threads :
    workers[t].pc = "dispatch" =>
      /\ workers[t].session_id \in DOMAIN ussd_refs
      /\ ussd_refs[workers[t].session_id] = workers[t].session_data
      /\ heap[workers[t].session_data].current_step = workers[t].current_step

\* C17: a sweep that runs while a request for session s is handled does not
\* delete s once the request has refreshed last_active: from that statement
\* until the handler dispatches, and as long as the refreshed time is within
\* the timeout, s is stored as the record the handler holds.
C17_RefreshedSessionSurvivesSweep ==
  (/\ workers[RequestThread].pc \in {"read", "dispatch"}
   /\ now - heap[workers[RequestThread].session_data].last_active <= SESSION_TIMEOUT) =>
    /\ workers[RequestThread].session_id \in DOMAIN ussd_refs
    /\ ussd_refs[workers[RequestThread].session_id] = workers[RequestThread].session_data

\* C23: however two requests for one session id interleave, a handler that
\* is about to return has a CON or an END response: none has failed on a
\* record that the other handler removed after this one's membership test.
C23_EveryRequestAnswered ==
  \A t \in Threads : workers[t].pc = "return" => workers[t].response \in {"CON", "END"}

\* C24: a greeting or an exit handled while an ordinary turn of the same
\* sender is in flight is not undone by that turn: when the turn's handler
\* is about to store its list, the sender still has a session and the list
\* stored for it is the one the handler holds.
C24_WriteBackKeepsResetAndExit ==
  \A t \in Threads :
    sms_workers[t].pc = "store" =>
      /\ sms_workers[t].sender \in DOMAIN sms_refs
      /\ sms_refs[sms_workers[t].sender] = sms_workers[t].history

\* C15: once the handlers of a sender's messages have all returned, however
\* their statements interleaved, the stored history is a sequence of pairs,
\* a user turn directly followed by a model turn.
C15_HistoryIsPairs ==
  (\A t \in Threads : sms_workers[t].pc = "idle") =>
    \A x \in DOMAIN sms_refs :
      LET turns == sms_heap[sms_refs[x]]
      IN  /\ Len(turns) % 2 = 0
          /\ \A i \in 1..Len(turns) :
               turns[i].role = IF i % 2 = 1 THEN "user" ELSE "model"

====
